---- MODULE Spec2Model ----
(***************************************************************************)
(* Model of git_release (src/main.py): one invocation of main(), from the  *)
(* parsed command line to the process exit.  Strings that the code         *)
(* inspects character by character (the version) are sequences of          *)
(* one-character strings; manifest files are abstracted to the parts the   *)
(* patchers read and write; every git invocation is a step whose outcome   *)
(* (exit status and output) is chosen by the environment.                  *)
(***************************************************************************)
EXTENDS Integers, Sequences, FiniteSets, TLC

VARIABLES
    pc,         \* position in main()/release()
    args,       \* argparse namespace: version, message, branch, skip_push
    files,      \* filename -> content of the manifest on disk
    before,     \* filename -> content when the process started
    written,    \* filenames written by this process
    calls,      \* patchers invoked so far, in order
    returned,   \* filename -> value the patcher returned ("none" before it ran)
    updated_count,
    status,     \* what `git status --porcelain` reported
    answer,     \* what input() returned at the prompt
    branch,     \* the branch push_to_all_remotes resolved
    remotes,    \* the list get_remote_repos returned
    ri,         \* index of the remote being pushed to
    cmds,       \* every git command issued, in order, with its outcome
    staged,     \* `git add .` has succeeded
    commits,    \* commit messages of the commits created
    tags,       \* names of the tags created
    pushed,     \* pushes that completed: [remote, ref]
    fi,         \* index in version_files of the next patcher to run
    out,        \* diagnostic lines printed
    exit,       \* process exit status, -1 while running
    outcome     \* which path ended the process

vars == <<pc, args, files, before, written, calls, returned, updated_count,
          status, answer, branch, remotes, ri, cmds, staged, commits, tags,
          pushed, fi, out, exit, outcome>>

----------------------------------------------------------------------------
(* Bounds of the model *)

\* at most this many of the four manifests exist in the project directory
MaxPresent == 2
\* at most this many remotes are configured
MaxRemotes == 2

----------------------------------------------------------------------------
(* Strings *)

None == "None"

AsciiDigits == {"0", "1", "2", "3", "4", "5", "6", "7", "8", "9"}
\* decimal digits outside ASCII, named by code point (ARABIC-INDIC DIGITS)
UnicodeDigits == {"U+0661", "U+0662", "U+0663"}

\* \d of a str pattern: any Unicode decimal digit
IsDigit(c) == c \in AsciiDigits \cup UnicodeDigits

RECURSIVE DigitsEnd(_, _)
\* position after the longest run of \d starting at i (\d+ is greedy and the
\* character that must follow is never a digit, so no backtracking applies)
DigitsEnd(s, i) ==
    IF i <= Len(s) /\ IsDigit(s[i]) THEN DigitsEnd(s, i + 1) ELSE i

\* `$` without re.MULTILINE: at the end, or just before a final newline
DollarAt(s, i) == i = Len(s) + 1 \/ (i = Len(s) /\ s[i] = "\n")

\* re.match(r'^\d+\.\d+\.\d+$', s)
VersionMatches(s) ==
    LET a == DigitsEnd(s, 1)
        b == DigitsEnd(s, a + 1)
        c == DigitsEnd(s, b + 1)
    IN  /\ a > 1 /\ a <= Len(s) /\ s[a] = "."
        /\ b > a + 1 /\ b <= Len(s) /\ s[b] = "."
        /\ c > b + 1
        /\ DollarAt(s, c)

----------------------------------------------------------------------------
(* Manifest files.  A content is a record; `kind` says what a read finds:   *)
(*   absent       the path does not exist                                   *)
(*   undecodable  bytes that are not UTF-8                                  *)
(*   malformed    text json.load rejects with JSONDecodeError               *)
(*   number, array, object   a JSON document of that type                   *)
(*   text         a TOML-like file; its fields are what the patterns match  *)
(* An optional value is a sequence of length 0 or 1.  `canon` says that the *)
(* bytes of a JSON file are exactly what json.dump(indent=2,                *)
(* ensure_ascii=False) writes for the document.                             *)

Cargo == "Cargo.toml"
Tauri == "tauri.conf.json"
Package == "package.json"
Pyproject == "pyproject.toml"

\* self.version_files: a dict, iterated in insertion order
version_files == <<Cargo, Tauri, Package, Pyproject>>

Filenames == {version_files[i] : i \in 1..Len(version_files)}

Absent == [kind |-> "absent"]
Undecodable == [kind |-> "undecodable"]
Malformed == [kind |-> "malformed"]

\* outcomes of one patcher call
Returns(c, b) ==
    [content |-> c, ret |-> b, wrote |-> FALSE, raised |-> None, msg |-> <<>>]
Raises(c, e) ==
    [content |-> c, ret |-> FALSE, wrote |-> FALSE, raised |-> e, msg |-> <<>>]
WritesAndReturnsTrue(c) ==
    [content |-> c, ret |-> TRUE, wrote |-> TRUE, raised |-> None,
     msg |-> <<"updated">>]
\* except (json.JSONDecodeError, ...): print, fall through to return False
ParseFailed(c) ==
    [content |-> c, ret |-> FALSE, wrote |-> FALSE, raised |-> None,
     msg |-> <<"parse_failed">>]

\* re.sub of (header ... version = ")[^"]*(") by \g<1> new_version \g<2> on
\* the one place the pattern matches, if any
SubVersion(opt, new_version) == IF opt = <<>> THEN <<>> ELSE <<new_version>>

_update_cargo_toml(c, new_version) ==
    IF c.kind = "absent" THEN Returns(c, FALSE)
    ELSE IF c.kind = "undecodable" THEN Raises(c, "UnicodeDecodeError")
    ELSE LET new_content == [c EXCEPT !.package = SubVersion(@, new_version)]
         IN  IF new_content # c
             THEN WritesAndReturnsTrue(new_content)
             ELSE Returns(c, FALSE)

\* the `updated` flag of _update_tauri_conf: set on both branches
TauriUpdated(config) == TRUE

_update_tauri_conf(c, new_version) ==
    IF c.kind = "absent" THEN Returns(c, FALSE)
    ELSE IF c.kind = "undecodable" THEN Raises(c, "UnicodeDecodeError")
    ELSE IF c.kind = "malformed" THEN ParseFailed(c)
    ELSE IF c.kind # "object" THEN Raises(c, "TypeError")
    ELSE IF c.package.t = "scalar" THEN Raises(c, "TypeError")
    ELSE LET config == [c EXCEPT !.package =
                            [t |-> "dict", version |-> <<new_version>>]]
         IN  IF TauriUpdated(config)
             THEN WritesAndReturnsTrue([config EXCEPT !.canon = TRUE])
             ELSE Returns(c, FALSE)

_update_package_json(c, new_version) ==
    IF c.kind = "absent" THEN Returns(c, FALSE)
    ELSE IF c.kind = "undecodable" THEN Raises(c, "UnicodeDecodeError")
    ELSE IF c.kind = "malformed" THEN ParseFailed(c)
    ELSE IF c.kind = "number" THEN Raises(c, "TypeError")
    ELSE IF c.kind = "array"
         THEN IF \E i \in 1..Len(c.items) : c.items[i] = "version"
              THEN Raises(c, "TypeError")
              ELSE Returns(c, FALSE)
    ELSE IF c.version # <<>>
         THEN WritesAndReturnsTrue(
                  [c EXCEPT !.version = <<new_version>>, !.canon = TRUE])
         ELSE Returns(c, FALSE)

_update_pyproject_toml(c, new_version) ==
    IF c.kind = "absent" THEN Returns(c, FALSE)
    ELSE IF c.kind = "undecodable" THEN Raises(c, "UnicodeDecodeError")
    ELSE LET by_poetry == [c EXCEPT !.poetry = SubVersion(@, new_version)]
             by_project == [c EXCEPT !.project = SubVersion(@, new_version)]
         IN  IF by_poetry # c THEN WritesAndReturnsTrue(by_poetry)
             ELSE IF by_project # c THEN WritesAndReturnsTrue(by_project)
             ELSE Returns(c, FALSE)

\* update_func(file_path, new_version) for the entry `filename`
update_func(filename, c, new_version) ==
    CASE filename = Cargo -> _update_cargo_toml(c, new_version)
      [] filename = Tauri -> _update_tauri_conf(c, new_version)
      [] filename = Package -> _update_package_json(c, new_version)
      [] filename = Pyproject -> _update_pyproject_toml(c, new_version)

----------------------------------------------------------------------------
(* Inputs *)

OldVersion == <<"0", ".", "1", ".", "0">>

\* command-line values of the positional `version`
Versions ==
    { <<"1", ".", "2", ".", "3">>,
      <<"1", ".", "2", ".", "3", "\n">>,
      <<"U+0661", ".", "U+0662", ".", "U+0663">>,
      <<"1", ".", "2">>,
      <<"v", "1", ".", "2", ".", "3">>,
      <<"1", ".", "2", ".", "3", "-", "b", "e", "t", "a">>,
      <<"1", ".", ".", "3">>,
      <<"1", ".", "2", ".", "3", "\n", "\n">>,
      <<>> }

Opt(v) == {<<>>, <<OldVersion>>, <<v>>}

CargoContents(v) ==
    {Absent, Undecodable} \cup {[kind |-> "text", package |-> o] : o \in Opt(v)}

TauriContents(v) ==
    {Absent, Undecodable, Malformed, [kind |-> "array", items |-> <<>>]}
    \cup {[kind |-> "object", canon |-> FALSE, package |-> p] :
            p \in {[t |-> "missing"], [t |-> "scalar"]}
                  \cup {[t |-> "dict", version |-> o] : o \in Opt(v)}}
    \cup {[kind |-> "object", canon |-> TRUE,
           package |-> [t |-> "dict", version |-> <<v>>]]}

PackageContents(v) ==
    {Absent, Undecodable, Malformed, [kind |-> "number"],
     [kind |-> "array", items |-> <<>>],
     [kind |-> "array", items |-> <<"version">>]}
    \cup {[kind |-> "object", canon |-> FALSE, version |-> o] : o \in Opt(v)}
    \cup {[kind |-> "object", canon |-> TRUE, version |-> <<v>>]}

PyprojectContents(v) ==
    {Absent, Undecodable}
    \cup {[kind |-> "text", poetry |-> a, project |-> b] :
            a \in Opt(v), b \in Opt(v)}

Present(fs) == {f \in Filenames : fs[f].kind # "absent"}

\* remotes in the order `git remote` lists them
AllRemotes == <<"origin", "upstream", "mirror">>

Min(a, b) == IF a <= b THEN a ELSE b

RemoteLists ==
    {SubSeq(AllRemotes, 1, k) : k \in 0..Min(MaxRemotes, Len(AllRemotes))}

RECURSIVE Join(_)
\* the stripped stdout of `git remote`: one name per line
Join(names) ==
    IF names = <<>> THEN <<>>
    ELSE IF Len(names) = 1 THEN names
    ELSE <<names[1], "\n">> \o Join(Tail(names))

RECURSIVE Split(_)
\* output.split('\n') on a non-empty output
Split(output) ==
    IF output = <<>> THEN <<>>
    ELSE IF Len(output) = 1 THEN output
    ELSE LET rest == IF output[2] = "\n" THEN SubSeq(output, 3, Len(output))
                     ELSE Tail(output)
         IN  <<output[1]>> \o Split(rest)

\* porcelain status outputs: clean, one modified tracked file, one untracked
StatusOutputs == {<<>>, <<" M src/lib.rs">>, <<"?? notes.txt">>}

NotQueried == <<"not queried">>
NotAsked == <<"not asked">>

\* lines typed at the prompt; EOF is a closed standard input
EOF == <<"EOF">>
Answers == {<<"y">>, <<"Y">>, <<"n">>, <<>>, <<"y", "e", "s">>, <<"y", " ">>}

LowerChar(c) == CASE c = "Y" -> "y" [] c = "N" -> "n" [] OTHER -> c

\* str.lower()
Lower(s) == [i \in 1..Len(s) |-> LowerChar(s[i])]

----------------------------------------------------------------------------
(* Initial state: the parsed command line and the project directory *)

Init ==
    /\ pc = "main"
    /\ args \in [version : Versions,
                 message : {None, "custom"},
                 branch : {None, "", "release"},
                 skip_push : BOOLEAN]
    /\ \E c1 \in CargoContents(args.version),
          c2 \in TauriContents(args.version),
          c3 \in PackageContents(args.version),
          c4 \in PyprojectContents(args.version) :
            files = (Cargo :> c1) @@ (Tauri :> c2) @@ (Package :> c3)
                    @@ (Pyproject :> c4)
    /\ Cardinality(Present(files)) <= MaxPresent
    /\ before = files
    /\ written = {}
    /\ calls = <<>>
    /\ returned = [f \in Filenames |-> "not called"]
    /\ updated_count = 0
    /\ status = NotQueried
    /\ answer = NotAsked
    /\ branch = None
    /\ remotes = <<>>
    /\ ri = 0
    /\ cmds = <<>>
    /\ staged = FALSE
    /\ commits = <<>>
    /\ tags = <<>>
    /\ pushed = <<>>
    /\ fi = 0
    /\ out = <<>>
    /\ exit = -1
    /\ outcome = "running"

----------------------------------------------------------------------------
(* Helpers of the steps *)

inputVars == <<args, before>>
fileVars == <<files, written, calls, returned, updated_count, fi>>
repoVars == <<staged, commits, tags, pushed>>
pushVars == <<branch, remotes, ri>>

\* `not x` for an Optional[str] argument
Falsy(x) == x = None \/ x = ""

\* the process ends: sys.exit(code) or the return from main()
Exit(code, why, lines) ==
    /\ pc' = "exited"
    /\ exit' = code
    /\ outcome' = why
    /\ out' = out \o lines

\* run_command's except branch: print the command and stderr, sys.exit(1)
CommandFailed == Exit(1, "git_failed", <<"command_failed">>)

\* the handler without its sys.exit(1): main() returns normally
UncaughtNoExit(e) == Exit(0, "exception", <<"error: " \o e>>)

\* main's `except Exception`: print the message, sys.exit(1)
Uncaught(e) == Exit(1, "exception", <<"error: " \o e>>)

\* a record of one subprocess.run: `git <op> ...` and whether it exited 0
Issued(op, remote, ref, ok) ==
    cmds' = Append(cmds, [op |-> op, remote |-> remote, ref |-> ref, ok |-> ok])

\* a check that ignores the output
IsCleanAlways(output) == TRUE

\* check_git_status: len(status) == 0
IsClean(output) == Len(output) = 0

\* a prompt that cancels only on an explicit "n"
DeclinedOnlyN(line) == Lower(line) = <<"n">>

\* `input().lower() != 'y'`
Declined(line) == Lower(line) # <<"y">>

\* the commit message git_commit_and_tag uses (default: "发布版本 v<version>")
CommitMessage(message, new_version) ==
    IF Falsy(message) THEN <<"release version v">> \o new_version
    ELSE <<message>>

\* a tag named by the bare version
TagNameBare(new_version) == new_version

\* tag_name = f"v{new_version}"
TagName(new_version) == <<"v">> \o new_version

(* What git accepts.  These are facts about the external tool. *)

\* the working tree differs from HEAD (after a clean status: a manifest's
\* bytes changed)
TreeDiffers == \E f \in Filenames : files[f] # before[f]

\* `git commit` exits non-zero when nothing is staged
CommitCanSucceed == staged /\ TreeDiffers

\* git check-ref-format: no control character in a ref name
RefNameValid(name) == \A i \in 1..Len(name) : name[i] # "\n"

\* `git push <remote> ""` is rejected as an invalid refspec
PushCanSucceed(ref) == ref # ""

----------------------------------------------------------------------------
(* main(): lines 244-247 *)

Validate ==
    /\ pc = "main"
    /\ IF ~VersionMatches(args.version)
       THEN Exit(1, "bad_version", <<"format_error">>)
       ELSE /\ pc' = "status"
            /\ UNCHANGED <<out, exit, outcome>>
    /\ UNCHANGED <<inputVars, fileVars, repoVars, pushVars, status, answer,
                   cmds>>

(* release() step 1: lines 206-210, check_git_status, run_command *)

CheckStatus ==
    /\ pc = "status"
    /\ \/ \* git cannot be started: subprocess.run raises
          /\ Issued("status", None, None, FALSE)
          /\ Uncaught("FileNotFoundError")
          /\ UNCHANGED status
       \/ \* git exits non-zero
          /\ Issued("status", None, None, FALSE)
          /\ CommandFailed
          /\ UNCHANGED status
       \/ \E o \in StatusOutputs :
            /\ Issued("status", None, None, TRUE)
            /\ status' = o
            /\ IF ~IsClean(o)
               THEN Exit(1, "dirty", <<"dirty">>)
               ELSE /\ pc' = "patch"
                    /\ out' = Append(out, "clean")
                    /\ UNCHANGED <<exit, outcome>>
    /\ fi' = 1
    /\ UNCHANGED <<inputVars, files, written, calls, returned, updated_count,
                   repoVars, pushVars, answer>>

(* update_version_files: one iteration of the loop, lines 150-153, and the *)
(* end of the function, lines 155-158, with the last one                   *)

UpdateOne ==
    /\ pc = "patch"
    /\ LET filename == version_files[fi]
           r == update_func(filename, files[filename], args.version)
           count == updated_count + (IF r.ret THEN 1 ELSE 0)
           last == fi = Len(version_files)
       IN  /\ calls' = Append(calls, filename)
           /\ files' = [files EXCEPT ![filename] = r.content]
           /\ written' = IF r.wrote THEN written \cup {filename} ELSE written
           /\ IF r.raised # None
              THEN /\ Uncaught(r.raised)
                   /\ UNCHANGED <<returned, updated_count, fi>>
              ELSE /\ returned' = [returned EXCEPT ![filename] =
                                      IF r.ret THEN "True" ELSE "False"]
                   /\ updated_count' = count
                   /\ fi' = fi + 1
                   /\ pc' = IF ~last THEN "patch"
                            ELSE IF count = 0 THEN "prompt" ELSE "add"
                   /\ out' = out
                        \o [i \in 1..Len(r.msg) |-> r.msg[i] \o ": " \o filename]
                        \o (IF last /\ count = 0 THEN <<"none_updated">>
                            ELSE <<>>)
                   /\ UNCHANGED <<exit, outcome>>
    /\ UNCHANGED <<inputVars, repoVars, pushVars, status, answer, cmds>>

(* release() step 2: lines 214-218 *)

Prompt ==
    /\ pc = "prompt"
    /\ \E line \in Answers \cup {EOF} :
         /\ answer' = line
         /\ IF line = EOF THEN Uncaught("EOFError")
            ELSE IF Declined(line)
            THEN Exit(0, "cancelled", <<"continue?", "cancelled">>)
            ELSE /\ pc' = "add"
                 /\ out' = Append(out, "continue?")
                 /\ UNCHANGED <<exit, outcome>>
    /\ UNCHANGED <<inputVars, fileVars, repoVars, pushVars, status, cmds>>

(* git_commit_and_tag: lines 160-176, one step per run_command *)

GitAdd ==
    /\ pc = "add"
    /\ \E ok \in BOOLEAN :
         /\ Issued("add", None, None, ok)
         /\ IF ok
            THEN /\ staged' = TRUE
                 /\ pc' = "commit"
                 /\ UNCHANGED <<out, exit, outcome>>
            ELSE /\ CommandFailed
                 /\ UNCHANGED staged
    /\ UNCHANGED <<inputVars, fileVars, pushVars, status, answer, commits,
                   tags, pushed>>

GitCommit ==
    /\ pc = "commit"
    /\ LET commit_message == CommitMessage(args.message, args.version)
       IN  \E ok \in {b \in BOOLEAN : b => CommitCanSucceed} :
             /\ Issued("commit", None, commit_message, ok)
             /\ IF ok
                THEN /\ commits' = Append(commits, commit_message)
                     /\ pc' = "tag"
                     /\ out' = Append(out, "committed")
                     /\ UNCHANGED <<exit, outcome>>
                ELSE /\ CommandFailed
                     /\ UNCHANGED commits
    /\ UNCHANGED <<inputVars, fileVars, pushVars, status, answer, staged,
                   tags, pushed>>

\* release() after git_commit_and_tag: lines 223-231
AfterTag ==
    IF args.skip_push
    THEN Exit(0, "success", <<"tagged", "push_skipped", "released">>)
    ELSE /\ pc' = IF Falsy(args.branch) THEN "get_branch" ELSE "get_remotes"
         /\ out' = Append(out, "tagged")
         /\ UNCHANGED <<exit, outcome>>

GitTag ==
    /\ pc = "tag"
    /\ LET tag_name == TagName(args.version)
       IN  \E ok \in {b \in BOOLEAN : b => RefNameValid(tag_name)} :
             /\ Issued("tag", None, tag_name, ok)
             /\ IF ok
                THEN /\ tags' = Append(tags, tag_name)
                     /\ AfterTag
                ELSE /\ CommandFailed
                     /\ UNCHANGED tags
    /\ branch' = args.branch
    /\ UNCHANGED <<inputVars, fileVars, remotes, ri, status, answer, staged,
                   commits, pushed>>

(* push_to_all_remotes: lines 178-197 *)

\* lines 180-181, get_current_branch; a detached HEAD prints nothing
GetCurrentBranch ==
    /\ pc = "get_branch"
    /\ \/ /\ Issued("branch", None, None, FALSE)
          /\ CommandFailed
          /\ UNCHANGED branch
       \/ \E o \in {"main", ""} :
            /\ Issued("branch", None, None, TRUE)
            /\ branch' = o
            /\ pc' = "get_remotes"
            /\ UNCHANGED <<out, exit, outcome>>
    /\ UNCHANGED <<inputVars, fileVars, repoVars, remotes, ri, status, answer>>

\* get_remote_repos: output.split('\n') if output else []
ParseRemotes(output) == IF Len(output) # 0 THEN Split(output) ELSE <<>>

\* lines 183-188
GetRemotes ==
    /\ pc = "get_remotes"
    /\ \/ /\ Issued("remote", None, None, FALSE)
          /\ CommandFailed
          /\ UNCHANGED <<remotes, ri>>
       \/ \E listed \in RemoteLists :
            /\ Issued("remote", None, None, TRUE)
            /\ remotes' = ParseRemotes(Join(listed))
            /\ IF remotes' = <<>>
               THEN /\ Exit(0, "success", <<"no_remotes", "released">>)
                    /\ UNCHANGED ri
               ELSE /\ pc' = "push_branch"
                    /\ ri' = 1
                    /\ UNCHANGED <<out, exit, outcome>>
    /\ UNCHANGED <<inputVars, fileVars, repoVars, branch, status, answer>>

\* line 192
PushBranch ==
    /\ pc = "push_branch"
    /\ \E ok \in {b \in BOOLEAN : b => PushCanSucceed(branch)} :
         /\ Issued("push", remotes[ri], branch, ok)
         /\ IF ok
            THEN /\ pushed' = Append(pushed, [remote |-> remotes[ri],
                                              ref |-> branch])
                 /\ pc' = "push_tags"
                 /\ UNCHANGED <<out, exit, outcome>>
            ELSE /\ CommandFailed
                 /\ UNCHANGED pushed
    /\ UNCHANGED <<inputVars, fileVars, pushVars, status, answer, staged,
                   commits, tags>>

\* a loop that leaves after the first remote
NextRemoteBreak(i) == Len(remotes) + 1

\* the loop of line 190 after the tags push to remotes[i]
NextRemote(i) == i + 1

\* line 196, and the end of release()
PushTags ==
    /\ pc = "push_tags"
    /\ \E ok \in BOOLEAN :
         /\ Issued("push", remotes[ri], "--tags", ok)
         /\ IF ok
            THEN /\ pushed' = Append(pushed, [remote |-> remotes[ri],
                                              ref |-> "--tags"])
                 /\ ri' = NextRemote(ri)
                 /\ IF ri' > Len(remotes)
                    THEN Exit(0, "success", <<"released">>)
                    ELSE /\ pc' = "push_branch"
                         /\ UNCHANGED <<out, exit, outcome>>
            ELSE /\ CommandFailed
                 /\ UNCHANGED <<pushed, ri>>
    /\ UNCHANGED <<inputVars, fileVars, branch, remotes, status, answer,
                   staged, commits, tags>>

----------------------------------------------------------------------------

Next ==
    \/ Validate
    \/ CheckStatus
    \/ UpdateOne
    \/ Prompt
    \/ GitAdd
    \/ GitCommit
    \/ GitTag
    \/ GetCurrentBranch
    \/ GetRemotes
    \/ PushBranch
    \/ PushTags

Spec == Init /\ [][Next]_vars

----------------------------------------------------------------------------
(* Properties *)

Running == pc # "exited"

IsPushCmd(c) == c.op = "push"
IsCommitStepCmd(c) == c.op \in {"add", "commit", "tag"}

PushCmds == SelectSeq(cmds, IsPushCmd)
CommitStepCmds == SelectSeq(cmds, IsCommitStepCmd)

\* no git add, commit, tag or push has been invoked
NoMutatingGit ==
    \A i \in 1..Len(cmds) : cmds[i].op \notin {"add", "commit", "tag", "push"}

\* no manifest has been written or altered
ManifestsUntouched == written = {} /\ files = before

RECURSIVE ExpectedPushes(_, _)
\* for each remote in order: the branch, then the tags
ExpectedPushes(rs, b) ==
    IF rs = <<>> THEN <<>>
    ELSE <<[remote |-> rs[1], ref |-> b], [remote |-> rs[1], ref |-> "--tags"]>>
         \o ExpectedPushes(Tail(rs), b)

\* major.minor.patch read strictly: ASCII digits, two dots, nothing else
StrictSemver(s) ==
    /\ Len(s) >= 5
    /\ Cardinality({i \in 1..Len(s) : s[i] = "."}) = 2
    /\ \A i \in 1..Len(s) : s[i] \in AsciiDigits \cup {"."}
    /\ s[1] # "." /\ s[Len(s)] # "."
    /\ \A i \in 1..(Len(s) - 1) : ~(s[i] = "." /\ s[i + 1] = ".")

\* C1: when `git status --porcelain` reports a non-empty status the run has
\* ended with status 1, no manifest was written and no git add, commit, tag
\* or push was invoked, whatever manifests exist and whatever the flags are.
C1_DirtyStopsBeforeSideEffects ==
    (status \in StatusOutputs /\ status # <<>>) =>
        /\ pc = "exited" /\ exit = 1
        /\ ManifestsUntouched
        /\ calls = <<>>
        /\ NoMutatingGit

C1_Witness ==
    /\ status = <<"?? notes.txt">>
    /\ pc = "exited"
    /\ Cardinality(Present(files)) = 2
    /\ ~args.skip_push

\* C2: when update_version_files returned 0 and the line typed at the prompt
\* is not "y"/"Y", the run has ended with status 0, no git add, commit, tag or
\* push was invoked and every manifest is as it was before the invocation.
C2_DeclineIsNoOp ==
    (answer \in Answers /\ answer \notin {<<"y">>, <<"Y">>}) =>
        /\ updated_count = 0
        /\ pc = "exited" /\ exit = 0 /\ outcome = "cancelled"
        /\ NoMutatingGit
        /\ ManifestsUntouched

C2_Witness ==
    /\ answer = <<"y", "e", "s">>
    /\ pc = "exited"
    /\ before[Tauri].kind = "malformed"
    /\ before[Package].kind = "object"

\* C3: pushes are issued one remote at a time in listing order, the branch
\* before the tags; a failed push is the last command of the run, which ends
\* with status 1; completed pushes, the commit and the tag stay; a run that
\* succeeds without --skip-push has pushed both refs to every remote.
C3_PushOrderAndFailFast ==
    LET P == PushCmds
        E == ExpectedPushes(remotes, branch)
        done == Cardinality({i \in 1..Len(P) : P[i].ok})
    IN  /\ remotes \in RemoteLists
        /\ Len(P) <= Len(E)
        /\ \A i \in 1..Len(P) : P[i].remote = E[i].remote /\ P[i].ref = E[i].ref
        /\ \A i \in 1..(Len(P) - 1) : P[i].ok
        /\ (Len(P) > 0 /\ ~P[Len(P)].ok) =>
               /\ cmds[Len(cmds)] = P[Len(P)]
               /\ pc = "exited" /\ exit = 1
        /\ pushed = SubSeq(E, 1, done)
        /\ Len(P) > 0 => Len(commits) = 1 /\ Len(tags) = 1
        /\ (outcome = "success" /\ ~args.skip_push) =>
               Len(P) = Len(E) /\ done = Len(E)

C3_Witness ==
    /\ Len(remotes) = 2
    /\ Len(pushed) = 3
    /\ pc = "exited" /\ exit = 1
    /\ Len(commits) = 1 /\ Len(tags) = 1

\* C4: git add, git commit and git tag are issued in that order, at most once
\* each, however many manifests were updated; each is issued only after the
\* one before succeeded; a failure ends the run with status 1 and undoes
\* nothing, so a failed tag leaves one commit and no tag; the tag is v<version>.
C4_CommitThenTagOnce ==
    LET G == CommitStepCmds
        order == <<"add", "commit", "tag">>
    IN  /\ Len(G) <= 3
        /\ \A i \in 1..Len(G) : G[i].op = order[i]
        /\ \A i \in 1..(Len(G) - 1) : G[i].ok
        /\ (Len(G) > 0 /\ ~G[Len(G)].ok) =>
               /\ cmds[Len(cmds)] = G[Len(G)]
               /\ pc = "exited" /\ exit = 1
        /\ Len(commits) = (IF Len(G) >= 2 /\ G[2].ok THEN 1 ELSE 0)
        /\ tags = (IF Len(G) = 3 /\ G[3].ok
                   THEN << <<"v">> \o args.version >> ELSE <<>>)

C4_Witness ==
    /\ updated_count = 2
    /\ returned[Cargo] = "True" /\ returned[Package] = "True"
    /\ Len(commits) = 1 /\ Len(tags) = 1
    /\ outcome = "success"

\* C5: the patchers run in the fixed order Cargo.toml, tauri.conf.json,
\* package.json, pyproject.toml; a manifest that is absent or whose content is
\* malformed (text that is not JSON, bytes that are not text) returns False
\* and stays as it was, a parse failure is printed for it, no exception ends
\* the run there, and the loop goes on to the next manifest.
C5_BadManifestDoesNotBlock ==
    /\ Len(calls) <= Len(version_files)
    /\ \A k \in 1..Len(calls) :
         /\ calls[k] = version_files[k]
         /\ before[calls[k]].kind \in {"absent", "malformed", "undecodable"} =>
              /\ returned[calls[k]] = "False"
              /\ files[calls[k]] = before[calls[k]]
              /\ fi > k
              /\ (k = Len(calls) /\ k < Len(version_files)) => pc = "patch"
              /\ before[calls[k]].kind # "absent" =>
                   \E j \in 1..Len(out) : out[j] = "parse_failed: " \o calls[k]
    /\ pc \in {"prompt", "add"} => Len(calls) = Len(version_files)

\* C6: a version that is not major.minor.patch (ASCII integers separated by
\* dots, nothing else) makes main() print the format error and exit 1 before
\* anything else happens; a version that is passes validation.
C6_OnlyStrictVersionsPass ==
    /\ ~StrictSemver(args.version) =>
         \/ pc = "main"
         \/ /\ pc = "exited" /\ exit = 1 /\ outcome = "bad_version"
            /\ out = <<"format_error">>
            /\ cmds = <<>> /\ calls = <<>> /\ ManifestsUntouched
    /\ StrictSemver(args.version) => outcome # "bad_version"

\* C7: a run ends exactly once, with status 0 or 1: 0 iff every step completed
\* (push done or skipped) or the operator declined at the prompt; 1 on a
\* rejected version, a dirty tree, a git command that exited non-zero, or an
\* exception (caught in main).
C7_ExitStatus ==
    LET failed == \E i \in 1..Len(cmds) : ~cmds[i].ok
        raised ==
            \/ answer = EOF
            \/ Len(calls) > 0 /\ returned[calls[Len(calls)]] = "not called"
        reported ==
            /\ out # <<>>
            /\ out[Len(out)] \in {"error: " \o e : e \in
                   {"TypeError", "UnicodeDecodeError", "EOFError",
                    "FileNotFoundError"}}
        completed ==
            /\ \E i \in 1..Len(cmds) : cmds[i].op = "tag" /\ cmds[i].ok
            /\ Len(commits) = 1 /\ Len(tags) = 1
            /\ \/ args.skip_push
               \/ pushed = ExpectedPushes(remotes, branch)
        declined == answer \in Answers /\ Lower(answer) # <<"y">>
    IN  /\ Running <=> exit = -1
        /\ ~Running => exit \in {0, 1}
        /\ ~Running => ~ENABLED Next
        /\ exit = 0 <=> (~Running /\ ~failed /\ ~raised
                         /\ (completed \/ declined))
        /\ exit = 1 <=>
             \/ pc # "main" /\ ~VersionMatches(args.version)
             \/ status \in StatusOutputs /\ status # <<>>
             \/ failed
             \/ raised
        /\ raised => (exit = 1 /\ reported)
        /\ outcome = "exception" <=> reported
        /\ outcome = "success" <=> (exit = 0 /\ completed)
        /\ outcome = "cancelled" <=> (exit = 0 /\ declined)

C7_Witness ==
    /\ outcome = "exception"
    /\ exit = 1
    /\ before[Package].kind = "number"
    /\ returned[Cargo] = "True"

\* C8: a patcher returns True exactly when the file existed and its bytes
\* were changed by the call, so the count update_version_files returns is the
\* number of manifests whose content changed.
C8_TrueIffModified ==
    /\ \A f \in Filenames :
         returned[f] # "not called" =>
            (returned[f] = "True" <=>
                (before[f].kind # "absent" /\ files[f] # before[f]))
    /\ updated_count = Cardinality({f \in Filenames : files[f] # before[f]})

\* C9: every `git push <remote> <branch>` carries a non-empty branch name:
\* --branch when given, otherwise the checked-out branch.
C9_PushCarriesBranch ==
    \A i \in 1..Len(cmds) :
        (cmds[i].op = "push" /\ cmds[i].ref # "--tags") =>
            /\ cmds[i].ref # ""
            /\ ~Falsy(args.branch) => cmds[i].ref = args.branch

\* C10: whenever release() reaches the commit step the working tree differs
\* from the last commit: some manifest's content was changed by the patch step.
C10_CommitHasSomethingToRecord ==
    pc \in {"add", "commit"} => TreeDiffers

====
